---------------------------- MODULE Spec2Model ----------------------------
(***************************************************************************)
(* Model of the Forest Done Log (src/app.py): the persisted profile file,  *)
(* the per-session profile kept in st.session_state, and the handlers of   *)
(* main(): session start (load + lapse check), a rerun of the script, the  *)
(* run that handles the "Post to Log" button (rejected; accepted, which    *)
(* ends at st.rerun(); save not completed) and the passing of calendar     *)
(* days.                                                                   *)
(*                                                                         *)
(* Dates.  A date object is its day-of-year ordinal in 2026; the string    *)
(* "%Y-%m-%d" is the triple <<year, month, day>>.  strftime and strptime   *)
(* convert between the two through the month table.                        *)
(* None is the empty tuple.  A task text is a tuple of characters.         *)
(*                                                                         *)
(* Clock.  A run reads datetime.now() several times; midnight may pass     *)
(* between two reads of one run (clock_reads), or between two runs         *)
(* (AdvanceDay).                                                           *)
(***************************************************************************)
EXTENDS Integers, Sequences, FiniteSets, TLC

VARIABLES
    today,          \* datetime.now().date(), as a day-of-year ordinal
    file,           \* forest_data.json on disk
    session_state,  \* st.session_state: <<>> or <<data>>
    chart,          \* rows of the Weekly Momentum chart the last run drew, <<>> if none
    rerun,          \* st.rerun() was called: the runner starts the script again
    nposts          \* number of "Post to Log" runs that reached the entry creation

vars == <<today, file, session_state, chart, rerun, nposts>>

-----------------------------------------------------------------------------
(* Bounds of the model *)

MaxDay == 1

MaxPosts == 2

MaxSeededPosts == 1

\* the save can fail in the "Post to Log" clicks 1..LastFailingAttempt
LastFailingAttempt == 1

\* a behaviour holds at most MaxEvents "Post to Log" clicks with a truthy text
\* and midnights together
MaxEvents == 3

-----------------------------------------------------------------------------
(* Calendar: datetime.strftime / datetime.strptime / timedelta *)

None == <<>>

Year == 2026

DaysInMonth == <<31, 28, 31, 30, 31, 30, 31, 31, 30, 31, 30, 31>>

RECURSIVE DaysBeforeMonthFrom(_)
DaysBeforeMonthFrom(m) ==
    IF m = 1 THEN 0 ELSE DaysBeforeMonthFrom(m - 1) + DaysInMonth[m - 1]

\* the days of the year before the first of each month
DaysBefore == [m \in 1..12 |-> DaysBeforeMonthFrom(m)]

DaysBeforeMonth(m) == DaysBefore[m]

\* date.strftime("%Y-%m-%d")
strftime(d) ==
    LET m == CHOOSE k \in 1..12 :
                 DaysBeforeMonth(k) < d /\ d <= DaysBeforeMonth(k) + DaysInMonth[k]
    IN  <<Year, m, d - DaysBeforeMonth(m)>>

\* datetime.strptime(s, "%Y-%m-%d").date()
strptime(s) == DaysBeforeMonth(s[2]) + s[3]

WeekdayNames ==
    <<"Monday", "Tuesday", "Wednesday", "Thursday", "Friday", "Saturday", "Sunday">>

\* date.strftime("%A"); 2026-01-01 is a Thursday
day_name(d) == WeekdayNames[((d + 2) % 7) + 1]

WeekdayAbbr == <<"Mon", "Tue", "Wed", "Thu", "Fri", "Sat", "Sun">>

\* date.strftime("%a")
day_abbr(d) == WeekdayAbbr[((d + 2) % 7) + 1]

\* the calendar day on which the model starts: 2026-02-27
StartDate == <<Year, 2, 27>>

-----------------------------------------------------------------------------
(* Persistence *)

default_profile ==
    [total_points |-> 0, streak |-> 0, last_post_date |-> None, logs |-> <<>>]

NoFile == [exists |-> FALSE, docs |-> <<>>]

\* a file whose text is not a JSON document (open(..., "w") truncated it and
\* json.dump did not complete)
TruncatedFile == [exists |-> TRUE, docs |-> <<>>]

\* save_data: the file holds the JSON document of the whole profile
save_data(data) == [exists |-> TRUE, docs |-> <<data>>]

\* load_data: the parsed document, with "logs" defaulted; the default profile
\* when the file is missing or json.load raises
load_data(f) ==
    IF f.exists /\ f.docs # <<>>
    THEN LET data == f.docs[1]
         IN  IF "logs" \notin DOMAIN data
             THEN [total_points   |-> data.total_points,
                   streak         |-> data.streak,
                   last_post_date |-> data.last_post_date,
                   logs           |-> <<>>]
             ELSE data
    ELSE default_profile

-----------------------------------------------------------------------------
(* Game and leveling logic *)

get_level(points) == (points \div 500) + 1

common == {"evergreen", "deciduous", "herb"}

uncommon == {"palm", "cactus", "bamboo"}

rare == {"blossom", "fallen_leaf", "mushroom", "clover"}

legendary == {"tanabata", "wind_chime", "fountain"}

get_tree_for_level_early(level) ==
    common
      \cup (IF level >= 2 THEN uncommon ELSE {})
      \cup (IF level >= 7 THEN rare ELSE {})
      \cup (IF level >= 15 THEN legendary ELSE {})

\* the values random.choice(pool) can return
get_tree_for_level(level) ==
    common
      \cup (IF level >= 3 THEN uncommon ELSE {})
      \cup (IF level >= 7 THEN rare ELSE {})
      \cup (IF level >= 15 THEN legendary ELSE {})

update_streak_logic_off_by_one(data, now) ==
    IF data.last_post_date = None
    THEN data
    ELSE IF now - strptime(data.last_post_date) > 2
         THEN [data EXCEPT !.streak = 0]
         ELSE data

update_streak_logic(data, now) ==
    IF data.last_post_date = None
    THEN data
    ELSE IF now - strptime(data.last_post_date) > 1
         THEN [data EXCEPT !.streak = 0]
         ELSE data


EffortOptions == {"Seed (Quick)", "Sapling (Solid)", "Oak (Big Win)"}

points_map_wide(effort_type) ==
    CASE effort_type = "Seed (Quick)"    -> <<5, 16>>
      [] effort_type = "Sapling (Solid)" -> <<20, 50>>
      [] effort_type = "Oak (Big Win)"   -> <<60, 150>>

points_map(effort_type) ==
    CASE effort_type = "Seed (Quick)"    -> <<5, 15>>
      [] effort_type = "Sapling (Solid)" -> <<20, 50>>
      [] effort_type = "Oak (Big Win)"   -> <<60, 150>>

\* The outcomes of the random source that the model draws: the ends of every
\* range of points_map and the integers next to them.
RandintDraws == {4, 5, 15, 16, 19, 20, 50, 51, 59, 60, 150, 151}

\* random.randint(low, high): low <= n <= high
randint(low, high) == {n \in RandintDraws : low <= n /\ n <= high}

\* random.getrandbits(32), one draw
getrandbits == {1073741824}

\* the texts typed into st.text_input
TaskTexts == {<<>>, <<"o", "k">>}

\* texts of white space only
WhitespaceTexts == {<<" ">>}

\* Python truthiness of a str: `if task_text:`
truthy(task_text) == Len(task_text) > 0

-----------------------------------------------------------------------------
(* datetime.now() *)

\* The readings of the n successive datetime.now() calls of one run that
\* starts on day `now`: midnight passes after none of them or, when the
\* bounds leave room for one more midnight, after read m.
clock_reads(now, n, room) ==
    { [i \in 1..n |-> IF m > 0 /\ i > m THEN now + 1 ELSE now] :
        m \in { x \in 0..(n - 1) : x = 0 \/ room } }

-----------------------------------------------------------------------------
(* Weekly Momentum (lines 204-217) *)

\* df[df['date'].dt.date == d]['points'].sum()
RECURSIVE points_on(_, _)
points_on(logs, d) ==
    IF logs = <<>>
    THEN 0
    ELSE (IF strptime(Head(logs).date) = d THEN Head(logs).points ELSE 0)
         + points_on(Tail(logs), d)

\* chart_data for i in range(6, -1, -1), each day from its own reading
\* nows[k] of datetime.now() (line 209), or no chart (st.info) without logs
weekly_momentum(logs, nows) ==
    IF logs # <<>>
    THEN [k \in 1..7 |->
            LET d == nows[k] - (7 - k)
            IN  [Day |-> day_abbr(d), Points |-> points_on(logs, d)]]
    ELSE <<>>

-----------------------------------------------------------------------------
(* "Post to Log" (lines 166-198) *)

streak_increment_always(data, today_str) ==
    [data EXCEPT !.streak = @ + 1]

\* lines 174-176
streak_increment(data, today_str) ==
    IF data.last_post_date # today_str
    THEN [data EXCEPT !.streak = @ + 1]
    ELSE data

new_entry_date_reread(id, today_str, now, task_text, pts_earned, tree_icon, effort_type) ==
    [id       |-> id,
     date     |-> strftime(now),
     day_name |-> day_name(now),
     task     |-> task_text,
     points   |-> pts_earned,
     tree     |-> tree_icon,
     effort   |-> effort_type]

\* lines 180-188: date is today_str of line 174, day_name comes from the
\* reading `now` of datetime.now() at line 183
new_entry(id, today_str, now, task_text, pts_earned, tree_icon, effort_type) ==
    [id       |-> id,
     date     |-> today_str,
     day_name |-> day_name(now),
     task     |-> task_text,
     points   |-> pts_earned,
     tree     |-> tree_icon,
     effort   |-> effort_type]

insert_entry_no_points(data, entry, today_str) ==
    [data EXCEPT !.logs = <<entry>> \o @,
                 !.last_post_date = today_str]

\* lines 190-192
insert_entry(data, entry, today_str) ==
    [data EXCEPT !.logs = <<entry>> \o @,
                 !.total_points = @ + entry.points,
                 !.last_post_date = today_str]

\* the profile after lines 174-192 for one outcome of the random draws;
\* nows[1] is the reading of line 174, nows[2] the one of line 183
posted_data(data, nows, id, task_text, pts_earned, tree_icon, effort_type) ==
    LET today_str == strftime(nows[1])
    IN  insert_entry(streak_increment(data, today_str),
                     new_entry(id, today_str, nows[2], task_text, pts_earned,
                               tree_icon, effort_type),
                     today_str)

-----------------------------------------------------------------------------
(* Initial states *)

Init ==
    /\ today = strptime(StartDate)
    /\ file = NoFile
    /\ session_state = <<>>
    /\ chart = <<>>
    /\ rerun = FALSE
    /\ nposts = 0

\* numbers of posts that leave the profile at level 2 (900 points), level 6
\* (2850), level 10 (4500) and level 14 (6900)
SeedCounts == {6, 19, 30, 46}

\* the last calendar day of the model
LastDay == strptime(StartDate) + MaxDay

\* the profile after k "Oak (Big Win)" posts of 150 points on the last day
seeded_profile(k) ==
    [total_points   |-> 150 * k,
     streak         |-> 1,
     last_post_date |-> strftime(LastDay),
     logs           |-> [i \in 1..k |->
                           new_entry(1073741824, strftime(LastDay), LastDay, <<"o", "k">>,
                                     150, "evergreen", "Oak (Big Win)")]]

InitSeeded ==
    /\ today = LastDay
    /\ file \in {save_data(seeded_profile(k)) : k \in SeedCounts}
    /\ session_state = <<>>
    /\ chart = <<>>
    /\ rerun = FALSE
    /\ nposts = 0

\* The profile in the file after one new session on each day of `days` (in
\* order) has posted one task of `effort_type` that drew `pts_earned` points.
RECURSIVE history(_, _, _)
history(days, effort_type, pts_earned) ==
    IF days = <<>>
    THEN default_profile
    ELSE LET now == days[Len(days)]
             before == history(SubSeq(days, 1, Len(days) - 1), effort_type, pts_earned)
         IN  posted_data(update_streak_logic(before, now), <<now, now>>, 1073741824,
                         <<"o", "k">>, pts_earned, "evergreen", effort_type)

\* days before the start day with a post: inside the trailing week, on its
\* first day, and before it
PastDays == {1, 6, 7}

RECURSIVE ascending(_)
ascending(S) ==
    IF S = {}
    THEN <<>>
    ELSE LET m == CHOOSE x \in S : \A y \in S : x <= y
         IN  <<m>> \o ascending(S \ {m})

InitHistory ==
    /\ today = strptime(StartDate)
    /\ file \in {NoFile} \cup
                { save_data(history(ascending({strptime(StartDate) - n : n \in S}),
                                    "Sapling (Solid)", 20)) :
                    S \in (SUBSET PastDays) \ {{}} }
    /\ session_state = <<>>
    /\ chart = <<>>
    /\ rerun = FALSE
    /\ nposts = 0

-----------------------------------------------------------------------------
(* Handlers *)

\* the posts and midnights so far
Events == nposts + (today - strptime(StartDate))

\* the bounds leave room for one more midnight after k more posts
MidnightMayPass(k) ==
    /\ today < strptime(StartDate) + MaxDay
    /\ Events + k < MaxEvents

\* A new session: session_state is empty, so main() loads the file and applies
\* the lapse check (lines 138-139, clock read at line 62), then draws the page
\* (clock reads at line 209).
SessionStart ==
    \E nows \in clock_reads(today, 8, MidnightMayPass(0)) :
        LET data == update_streak_logic(load_data(file), nows[1])
        IN  /\ session_state' = <<data>>
            /\ chart' = weekly_momentum(data.logs, SubSeq(nows, 2, 8))
            /\ today' = nows[8]
            /\ rerun' = FALSE
            /\ UNCHANGED <<file, nposts>>

\* A run of main() in a session that holds data, with no button pressed: the
\* run the runner starts after st.rerun(), or any other rerun.
Render ==
    /\ session_state # <<>>
    /\ \E nows \in clock_reads(today, 7, MidnightMayPass(0)) :
         /\ chart' = weekly_momentum(session_state[1].logs, nows)
         /\ today' = nows[7]
    /\ rerun' = FALSE
    /\ UNCHANGED <<file, session_state, nposts>>

\* "Post to Log" with a falsy task_text: st.error (line 198), then the rest of
\* the page.
Reject(task_text) ==
    /\ session_state # <<>>
    /\ ~truthy(task_text)
    /\ \E nows \in clock_reads(today, 7, MidnightMayPass(0)) :
         /\ chart' = weekly_momentum(session_state[1].logs, nows)
         /\ today' = nows[7]
    /\ UNCHANGED <<file, session_state, rerun, nposts>>

\* the profiles "Post to Log" can produce from data (lines 141-142, 169-192)
post_outcomes(data, nows, task_text, effort_type) ==
    LET current_level == get_level(data["total_points"])
        range == points_map(effort_type)
    IN  { posted_data(data, nows, id, task_text, pts_earned, tree_icon, effort_type) :
            id \in getrandbits,
            pts_earned \in randint(range[1], range[2]),
            tree_icon \in get_tree_for_level(current_level) }

\* "Post to Log" with a truthy task_text (lines 167-196): the profile is
\* changed in place and saved, and st.rerun() ends the run before the page
\* below the form is drawn.
Post(task_text, effort_type) ==
    /\ session_state # <<>>
    /\ truthy(task_text)
    /\ \E nows \in clock_reads(today, 2, MidnightMayPass(1)) :
         \E posted \in post_outcomes(session_state[1], nows, task_text, effort_type) :
            /\ session_state' = <<posted>>
            /\ file' = save_data(posted)
            /\ today' = nows[2]
    /\ chart' = <<>>
    /\ rerun' = TRUE
    /\ nposts' = nposts + 1

\* the run that handles a click on "Post to Log", at most `limit` posts
Click(texts, limit) ==
    /\ ~rerun
    /\ \E task_text \in texts :
         \/ Reject(task_text)
         \/ /\ nposts < limit
            /\ Events < MaxEvents
            /\ \E effort_type \in EffortOptions : Post(task_text, effort_type)

PostTask == Click(TaskTexts, MaxPosts)

PostTaskAnyText == Click(TaskTexts \cup WhitespaceTexts, MaxPosts)

PostTaskSeeded == Click(TaskTexts, MaxSeededPosts)

\* "Post to Log" whose save_data does not complete, after lines 176-192 have
\* changed the profile in place. open(DATA_FILE, "w") raises and the file is
\* as it was, or it has truncated the file and json.dump does not finish. The
\* run ends with the exception (the session keeps the changed profile, nothing
\* is drawn, st.rerun() is not reached), or the process is killed (the session
\* goes with it).
PostSaveInterrupted ==
    /\ session_state # <<>>
    /\ ~rerun
    /\ nposts < LastFailingAttempt
    /\ Events < MaxEvents
    /\ \E task_text \in TaskTexts :
         /\ truthy(task_text)
         /\ \E nows \in clock_reads(today, 2, MidnightMayPass(1)) :
              /\ today' = nows[2]
              /\ \/ \E effort_type \in EffortOptions :
                      \E posted \in post_outcomes(session_state[1], nows,
                                                  task_text, effort_type) :
                         session_state' = <<posted>> /\ chart' = <<>>
                 \/ session_state' = <<>> /\ chart' = <<>>
    /\ \/ file' = file
       \/ file' = TruncatedFile
    /\ nposts' = nposts + 1
    /\ UNCHANGED rerun

\* Midnight passes between two runs.
AdvanceDay ==
    /\ MidnightMayPass(0)
    /\ today' = today + 1
    /\ UNCHANGED <<file, session_state, chart, rerun, nposts>>

Next ==
    \/ SessionStart
    \/ Render
    \/ PostTask
    \/ PostSaveInterrupted
    \/ AdvanceDay

Spec == Init /\ [][Next]_vars

NextAnyText ==
    \/ SessionStart
    \/ Render
    \/ PostTaskAnyText
    \/ PostSaveInterrupted
    \/ AdvanceDay

SpecAnyText == Init /\ [][NextAnyText]_vars

NextSeeded ==
    \/ SessionStart
    \/ Render
    \/ PostTaskSeeded

SpecSeeded == InitSeeded /\ [][NextSeeded]_vars

NextHistory ==
    \/ SessionStart
    \/ Render
    \/ PostTaskSeeded
    \/ AdvanceDay

SpecHistory == InitHistory /\ [][NextHistory]_vars

\* one day, on top of a saved history, with saves that do not complete
NextSaveFails ==
    \/ SessionStart
    \/ Render
    \/ PostTaskSeeded
    \/ PostSaveInterrupted

SpecSaveFails == InitHistory /\ [][NextSaveFails]_vars

-----------------------------------------------------------------------------
(* Properties *)

\* the profile of the open session
Profile == session_state[1]

RECURSIVE SumPoints(_)
SumPoints(logs) ==
    IF logs = <<>> THEN 0 ELSE Head(logs).points + SumPoints(Tail(logs))

\* the entries of logs dated on day d
EntriesOn(logs, d) == SelectSeq(logs, LAMBDA e : strptime(e.date) = d)

\* A step of "Post to Log" that created an entry and saved the profile.
IsPostStep ==
    /\ nposts' = nposts + 1
    /\ session_state' # <<>>
    /\ file' = save_data(session_state'[1])

\* C1: total_points equals the sum of the points of all entries in logs, in
\* the session's profile and in the profile the file loads as, after every
\* command from a fresh profile.
C1_TotalIsSumOfLogPoints ==
    /\ session_state # <<>> => Profile.total_points = SumPoints(Profile.logs)
    /\ load_data(file).total_points = SumPoints(load_data(file).logs)

C1_Witness ==
    /\ session_state # <<>>
    /\ Len(Profile.logs) = 2
    /\ Profile.logs[1].points # Profile.logs[2].points
    /\ Profile.total_points = Profile.logs[1].points + Profile.logs[2].points
    /\ load_data(file) = Profile

HasLogOn(logs, d) == \E i \in 1..Len(logs) : strptime(logs[i].date) = d

\* the number of consecutive days, ending at d, that each hold an entry
RECURSIVE RunEndingAt(_, _)
RunEndingAt(logs, d) ==
    IF HasLogOn(logs, d) THEN 1 + RunEndingAt(logs, d - 1) ELSE 0

\* C2: streak is 0 or the length of the unbroken run of consecutive calendar
\* days, each with at least one entry, that ends at last_post_date.
C2_StreakIsConsecutiveDays ==
    session_state # <<>> =>
        \/ Profile.streak = 0
        \/ /\ Profile.last_post_date # None
           /\ Profile.streak = RunEndingAt(Profile.logs, strptime(Profile.last_post_date))

\* C3: after a PostTask interrupted during save, loading the file gives the
\* complete profile of before the command or the complete profile of after
\* it, never a default one.
C3_PostTaskIsAtomic ==
    [][PostSaveInterrupted =>
          \/ load_data(file') = load_data(file)
          \/ \E nows \in clock_reads(today, 2, TRUE), t \in TaskTexts, e \in EffortOptions :
                load_data(file') \in post_outcomes(session_state[1], nows, t, e)]_vars

\* a text that is empty or holds white space only
IsBlank(task_text) == \A i \in 1..Len(task_text) : task_text[i] = " "

\* C4: "Post to Log" with an empty or white-space-only task text changes
\* neither the profile nor the file.
C4_BlankTextChangesNothing ==
    [][\A t \in TaskTexts \cup WhitespaceTexts, e \in EffortOptions :
          (IsBlank(t) /\ (Post(t, e) \/ Reject(t)))
              => UNCHANGED <<session_state, file>>]_vars

\* a step that leaves in the session what lines 138-139 put there on a day
\* that starts as today: every SessionStart step is one
LoadsSession ==
    /\ nposts' = nposts
    /\ file' = file
    /\ session_state' = <<update_streak_logic(load_data(file), today)>>

\* C5: the lapse check at session load on day T, last post on day D: streak
\* becomes 0 when T - D >= 2, stays when T - D is 0 or 1, nothing happens
\* without a last post; total_points, last_post_date and logs stay.
C5_LapseCheck ==
    [][LoadsSession =>
          LET loaded == load_data(file)
              after == session_state'[1]
          IN  /\ after.total_points = loaded.total_points
              /\ after.last_post_date = loaded.last_post_date
              /\ after.logs = loaded.logs
              /\ loaded.last_post_date = None => after.streak = loaded.streak
              /\ loaded.last_post_date # None =>
                   LET gap == today - strptime(loaded.last_post_date)
                   IN  /\ gap >= 2 => after.streak = 0
                       /\ gap \in {0, 1} => after.streak = loaded.streak]_vars

C5_Witness ==
    /\ session_state # <<>>
    /\ Profile.logs # <<>>
    /\ today - strptime(Profile.last_post_date) >= 2
    /\ Profile.streak = 0
    /\ load_data(file).streak = 1
    /\ load_data(file).logs = Profile.logs

\* C6: a successful post increments streak by exactly 1 when last_post_date
\* was not today and leaves it when it was; either way it adds one entry and
\* that entry's points.
C6_StreakIncrement ==
    [][IsPostStep =>
          LET before == session_state[1]
              after == session_state'[1]
          IN  /\ before.last_post_date # strftime(today)
                   => after.streak = before.streak + 1
              /\ before.last_post_date = strftime(today)
                   => after.streak = before.streak
              /\ Len(after.logs) = Len(before.logs) + 1
              /\ Tail(after.logs) = before.logs
              /\ after.total_points = before.total_points + after.logs[1].points]_vars

C6_Witness ==
    /\ session_state # <<>>
    /\ Len(Profile.logs) = 2
    /\ Profile.logs[1].date = Profile.logs[2].date
    /\ Profile.streak = 1
    /\ Profile.total_points = Profile.logs[1].points + Profile.logs[2].points

\* last_post_date is the date of the newest entry, or None without entries
HeadDated(data) ==
    /\ data.logs # <<>> => data.last_post_date = data.logs[1].date
    /\ data.logs = <<>> => data.last_post_date = None

\* C7: last_post_date is the date of logs[0] when logs is not empty, and is
\* absent when logs is empty, in the profile of the session and in the profile
\* the file loads as.
C7_LastPostDateIsHeadDate ==
    /\ HeadDated(load_data(file))
    /\ session_state # <<>> => HeadDated(Profile)

C7_Witness ==
    /\ session_state # <<>>
    /\ Len(Profile.logs) = 2
    /\ Profile.logs[1].date # Profile.logs[2].date
    /\ Profile.last_post_date = Profile.logs[1].date
    /\ load_data(file) = Profile

\* C8: the tree of a post comes from the pool of the level of total_points
\* before the post: common only below level 3, no rare below 7, no legendary
\* below 15; 3 possible values at level 2 and 10 at level 10.
C8_TreeFromLevelBeforePost ==
    [][IsPostStep =>
          LET before == session_state[1]
              tree == session_state'[1].logs[1].tree
              level == (before.total_points \div 500) + 1
              possible == { p.logs[1].tree :
                              p \in UNION { post_outcomes(before, <<today, today>>, <<"o", "k">>, e) :
                                              e \in EffortOptions } }
          IN  /\ level < 3 => tree \in common
              /\ level < 7 => tree \notin rare
              /\ level < 15 => tree \notin legendary
              /\ level = 2 => Cardinality(possible) = 3
              /\ level = 10 => Cardinality(possible) = 10]_vars

C8_Witness ==
    /\ session_state # <<>>
    /\ nposts = 1
    /\ (Profile.total_points - Profile.logs[1].points) \div 500 = 1
    /\ Profile.total_points \div 500 = 2
    /\ Profile.logs[1].tree \in common

\* the inclusive range of each effort level
EffortRange(effort) ==
    CASE effort = "Seed (Quick)"    -> 5..15
      [] effort = "Sapling (Solid)" -> 20..50
      [] effort = "Oak (Big Win)"   -> 60..150

\* C9: a successful post prepends exactly one entry, dated today, with points
\* in its effort's range, and adds those points; the older entries stay as
\* they are; a session start, a rerun, a rejected post and the passing of a
\* day leave the entries as they are in the session or in the file.
C9_LogsAppendAtHeadOnly ==
    [][/\ IsPostStep =>
            LET before == session_state[1]
                after == session_state'[1]
                entry == after.logs[1]
            IN  /\ after.logs = <<entry>> \o before.logs
                /\ entry.points \in EffortRange(entry.effort)
                /\ entry.date = strftime(today)
                /\ after.total_points = before.total_points + entry.points
       /\ (nposts' = nposts /\ session_state' # <<>>) =>
            \/ session_state # <<>> /\ session_state'[1].logs = session_state[1].logs
            \/ session_state'[1].logs = load_data(file).logs]_vars

C9_Witness ==
    /\ session_state # <<>>
    /\ Len(Profile.logs) = 2
    /\ Profile.logs[1].effort = "Seed (Quick)"
    /\ Profile.logs[1].points = 15
    /\ Profile.logs[2].effort = "Oak (Big Win)"
    /\ Profile.logs[2].points = 60
    /\ Profile.logs[1].date # Profile.logs[2].date

RECURSIVE SumBuckets(_)
SumBuckets(rows) ==
    IF rows = <<>> THEN 0 ELSE Head(rows).Points + SumBuckets(Tail(rows))

\* the entries dated within the 7 days that end on day d
EntriesInWeek(logs, d) ==
    SelectSeq(logs, LAMBDA e : d - 6 <= strptime(e.date) /\ strptime(e.date) <= d)

\* the weekly series is 7 buckets, from today-6 to today, each the sum of the
\* points of its day
IsWeeklySeries(rows, logs, d) ==
    /\ Len(rows) = 7
    /\ \A k \in 1..7 :
         /\ rows[k].Day = day_abbr(d - 7 + k)
         /\ rows[k].Points = SumPoints(EntriesOn(logs, d - 7 + k))
    /\ SumBuckets(rows) = SumPoints(EntriesInWeek(logs, d))

\* a run that draws the page: a session start, a rerun or a rejected post
DrawsPage == SessionStart \/ Render \/ \E t \in TaskTexts : Reject(t)

\* C10, for a log history that is not empty: the weekly series drawn by a run
\* is the 7 buckets of the trailing week of the day the run started on or of
\* the day it ended on.
C10_WeeklySeriesOfLogs ==
    [][(DrawsPage /\ session_state'[1].logs # <<>>) =>
          \/ IsWeeklySeries(chart', session_state'[1].logs, today)
          \/ IsWeeklySeries(chart', session_state'[1].logs, today')]_vars

=============================================================================
